---- MODULE Spec2Model ----
(***************************************************************************)
(* Model of iiwa_control::DSImpedanceController                            *)
(* (src/iiwa_control/src/ds_impedance_controller.cpp).                     *)
(*                                                                         *)
(* Two threads share the controller object: the real-time thread runs      *)
(* update() once per control cycle, the ROS callback thread runs           *)
(* commandCB() and dynamicReconfigureCallback().  The command buffer is a  *)
(* realtime_tools::RealtimeBuffer<std::vector<double>>: two slots, a       *)
(* mutex and a new-data flag; writeFromNonRT copies into the non-realtime  *)
(* slot under the mutex, readFromRT try-locks, swaps the slots when new    *)
(* data is flagged, and returns the real-time slot.                        *)
(*                                                                         *)
(* Doubles are modelled by integers plus the value NaN; the quantities     *)
(* produced by the external collaborators (kinematics, Jacobian, passive   *)
(* DS) are nondeterministic inputs of the cycle.                           *)
(***************************************************************************)
EXTENDS Integers, Sequences, FiniteSets, TLC

\* ---------------------------------------------------------------- bounds
MaxVal == 2        \* command payload elements are drawn from 1..MaxVal
MaxTorque == 3     \* primary-task torques are drawn from -MaxTorque..MaxTorque
MaxEig == 2        \* passive-DS eigenvalues are drawn from 1..MaxEig
MaxScale == 1      \* gain configurations are drawn from scale 0..MaxScale

\* ------------------------------------------------------ program constants
NJoints == 7       \* j0_.resize(7): the reference posture fixes n_joints_
CommandSize == 10  \* the size commandCB and update expect
DSDim == 3         \* dimension handed to passive_ds_.SetParams

Joints == 1..NJoints
NaN == "NaN"      \* class of a quotient 0/0

\* A payload of length len whose elements all equal v
Payload(len, v) == [i \in 1..len |-> v]

\* Lengths a command message may arrive with
PayloadLens == {NJoints, CommandSize, CommandSize + 1}

\* The messages the command topic may deliver
Messages == {Payload(len, v) : len \in PayloadLens, v \in 1..MaxVal}

\* init: std::vector<double>(10, 0.0)
Placeholder == Payload(CommandSize, 0)

\* The latch before any command: no command has been received
firstCommandInitial == FALSE

VARIABLES
    firstCommand,   \* firstCommand_
    rtData,         \* commands_buffer_: *realtime_data_
    nonRtData,      \* commands_buffer_: *non_realtime_data_
    newData,        \* commands_buffer_: new_data_available_
    mutex,          \* commands_buffer_: mutex_ ("free" or "nonrt")
    cpc,            \* position of commandCB
    msg,            \* msg->data of the commandCB call in progress / last call
    written,        \* history: {} or {payload of the last completed writeFromNonRT of commandCB}
    gains,          \* rotationalStiffness_ ... jointVelocitiesGain_, useNullSpace_
    dsParams,       \* parameters held by passive_ds_
    config,         \* <<>> or <<the config of the last dynamicReconfigureCallback>>
    upc,            \* position of update
    sawActive,      \* the value of firstCommand_ update read at line 227
    commands,       \* the vector update got from readFromRT
    mayRead,        \* history: payloads a read at that instant may return
    issued,         \* setCommand calls of the current cycle: <<joint, effort>>
    calls,          \* collaborator calls of the current cycle
    Rd, R, Re, qe, rpc   \* orientation-error law inputs and result

ctlVars == <<firstCommand, rtData, nonRtData, newData, mutex, cpc, msg, written,
             gains, dsParams, config, upc, sawActive, commands, mayRead, issued, calls>>
rotVars == <<Rd, R, Re, qe, rpc>>
vars == <<firstCommand, rtData, nonRtData, newData, mutex, cpc, msg, written,
          gains, dsParams, config, upc, sawActive, commands, mayRead, issued, calls,
          Rd, R, Re, qe, rpc>>

\* ------------------------------------------------------- rotation algebra
Idx == 1..3
Perms == {p \in [Idx -> Idx] : \A i, j \in Idx : (i # j) => (p[i] # p[j])}
Signs == [Idx -> {-1, 1}]

Det(M) ==
    M[1][1] * (M[2][2] * M[3][3] - M[2][3] * M[3][2])
  - M[1][2] * (M[2][1] * M[3][3] - M[2][3] * M[3][1])
  + M[1][3] * (M[2][1] * M[3][2] - M[2][2] * M[3][1])

\* The 24 rotation matrices with entries in {-1, 0, 1}
RotMats ==
    {M \in {[i \in Idx |-> [j \in Idx |-> IF j = p[i] THEN s[i] ELSE 0]] :
                p \in Perms, s \in Signs} : Det(M) = 1}

Identity3 == [i \in Idx |-> [j \in Idx |-> IF i = j THEN 1 ELSE 0]]

MatMul(A, B) ==
    [i \in Idx |-> [j \in Idx |-> A[i][1] * B[1][j] + A[i][2] * B[2][j] + A[i][3] * B[3][j]]]

\* 2x2 minor of M without row a and column b
Minor(M, a, b) ==
    LET rows == CHOOSE rr \in Idx \X Idx : rr[1] < rr[2] /\ rr[1] # a /\ rr[2] # a
        cols == CHOOSE cc \in Idx \X Idx : cc[1] < cc[2] /\ cc[1] # b /\ cc[2] # b
    IN  M[rows[1]][cols[1]] * M[rows[2]][cols[2]] - M[rows[1]][cols[2]] * M[rows[2]][cols[1]]

CofSign(a, b) == IF (a + b) % 2 = 0 THEN 1 ELSE -1

\* R.inverse(): adjugate over determinant (exact for the matrices of RotMats)
Inverse(M) ==
    [i \in Idx |-> [j \in Idx |-> (CofSign(i, j) * Minor(M, j, i)) \div Det(M)]]

\* Floating-point a / (4 * sqrt(dsq) / 2) on exact inputs: the class of the result.
\* dsq is the squared doubled pivot (1 + tr_k), so the divisor is 0 iff dsq = 0.
FDiv(a, dsq) ==
    IF dsq = 0 THEN (IF a = 0 THEN NaN ELSE "Inf")
    ELSE IF a = 0 THEN "Zero" ELSE "Finite"

\* The branch rotationMatrixToQuaternion takes: 0 (tr), 1 (tr1), 2 (tr2), 3 (tr3)
QuatBranch(tr, tr1, tr2, tr3) ==
    IF tr > 0 THEN 0
    ELSE IF (tr1 > tr2) /\ (tr1 > tr3) THEN 1
    ELSE IF (tr2 > tr1) /\ (tr2 > tr3) THEN 2
    ELSE 3

\* rotationMatrixToQuaternion.  The pivot component is sqrt(1 + tr_k) / 2, kept
\* as pivotSq = 1 + tr_k; the other three are numerators divided by 4 * pivot,
\* kept as the class of the quotient.  quantities = <<tr, tr1, tr2, tr3>>.
rotationMatrixToQuaternion(M) ==
    LET r11 == M[1][1]  r12 == M[1][2]  r13 == M[1][3]
        r21 == M[2][1]  r22 == M[2][2]  r23 == M[2][3]
        r31 == M[3][1]  r32 == M[3][2]  r33 == M[3][3]
        tr  == r11 + r22 + r33
        tr1 == r11 - r22 - r33
        tr2 == (0 - r11) + r22 - r33
        tr3 == (0 - r11) - r22 + r33
        b   == QuatBranch(tr, tr1, tr2, tr3)
        dsq == 1 + (CASE b = 0 -> tr [] b = 1 -> tr1 [] b = 2 -> tr2 [] OTHER -> tr3)
        num == CASE b = 0 -> <<r32 - r23, r13 - r31, r21 - r12>>
                 [] b = 1 -> <<r32 - r23, r21 + r12, r31 + r13>>
                 [] b = 2 -> <<r13 - r31, r21 + r12, r32 + r23>>
                 [] OTHER -> <<r21 - r12, r31 + r13, r32 + r23>>
    IN  [branch     |-> b,
         quantities |-> <<tr, tr1, tr2, tr3>>,
         pivotSq    |-> dsq,
         others     |-> [k \in Idx |-> FDiv(num[k], dsq)],
         \* q(0) is the pivot in branch 0 and the first quotient otherwise
         w          |-> IF b = 0 THEN "Finite" ELSE FDiv(num[1], dsq)]

\* Whether the torque computed from the error quaternion is NaN: angle =
\* 2*acos(qe(0)) is NaN when qe(0) is NaN or infinite, the axis is NaN when a
\* component of the vector part is, and NaN survives every later product and sum.
QuatPoisons(q) ==
    \/ q.w \in {NaN, "Inf"}
    \/ \E k \in Idx : q.others[k] \in {NaN, "Inf"}

\* ------------------------------------------------------------- doubles
\* A double is a number or NaN
Num(v) == [nan |-> FALSE, v |-> v]
NaNValue == [nan |-> TRUE, v |-> 0]

\* a > b and a < b on doubles: false whenever an operand is NaN
FGt(a, b) == (~a.nan) /\ (~b.nan) /\ a.v > b.v
FLt(a, b) == (~a.nan) /\ (~b.nan) /\ a.v < b.v
FNeg(a) == IF a.nan THEN a ELSE Num(0 - a.v)

\* joint_urdfs_[index]->limits->effort: the effort limits of the robot description
\* (0, 1 and 2 stand for the URDF's values: a zero limit and two positive ones)
JointEffortLimit(index) == Num(index % 3)

\* enforceJointLimits: the value left in command
enforceJointLimits(command, index) ==
    IF FGt(command, JointEffortLimit(index)) THEN JointEffortLimit(index)
    ELSE IF FLt(command, FNeg(JointEffortLimit(index))) THEN FNeg(JointEffortLimit(index))
    ELSE command

\* ---------------------------------------------------------------- gains
\* Eigenvalue vectors: all ones, or one eigenvalue set to another value
EigVectors == {[i \in 1..DSDim |-> IF i = j THEN e ELSE 1] : j \in 1..DSDim, e \in 1..MaxEig}

\* The configs the tuning surface may send
Configs ==
    {[rotationalStiffness |-> 10 * k + 1, rotationalDamping |-> 10 * k + 2,
      jointLimitsGain |-> 3 * k, desiredJointsGain |-> 4 * k,
      jointVelocitiesGain |-> 5 * k, useNullSpace |-> b,
      gain0 |-> g[1], gain1 |-> g[2], gain2 |-> g[3]] :
        k \in 0..MaxScale, b \in BOOLEAN, g \in EigVectors}

\* The constructor's gains; useNullSpace_ is not set by the constructor
ConstructorGains(b) ==
    [rotationalStiffness |-> 0, rotationalDamping |-> 0, jointLimitsGain |-> 0,
     desiredJointsGain |-> 0, jointVelocitiesGain |-> 0, useNullSpace |-> b]

\* The eigenvalue vector dynamicReconfigureCallback builds from a config
EigvalsOf(c) == <<c.gain0, c.gain1, c.gain1>>

\* -------------------------------------------------------- command buffer
\* RealtimeBuffer::readFromRT: <<realtime slot, non-realtime slot, flag>> after the call
readFromRT(rt, nonrt, flag, mtx) ==
    IF mtx = "free" /\ flag THEN <<nonrt, rt, FALSE>> ELSE <<rt, nonrt, flag>>

\* The value a reader gets when the mutex is free
Published == IF newData THEN nonRtData ELSE rtData

\* commandCB's size test: TRUE when the message is refused
SizeRejected(m) == Len(m) # NJoints /\ Len(m) # CommandSize

\* Variant of NextStep: the latch is set before the buffer is written
NextStepLatchFirst(pc) ==
    CASE pc = "check" -> "latch"
      [] pc = "latch" -> "write"
      [] pc = "copy"  -> "idle"

\* The order of commandCB's steps after the size test
NextStep(pc) ==
    CASE pc = "check" -> "write"
      [] pc = "copy"  -> "latch"
      [] pc = "latch" -> "idle"

\* Variant of LatchAfterCommand: the latch is toggled by every accepted command
LatchToggled(fc) == ~fc

\* if(!firstCommand_) firstCommand_ = true
LatchAfterCommand(fc) == IF ~fc THEN TRUE ELSE fc

\* Variant of IdleCommands: the loop stops one joint early
IdleCommandsShort == [i \in 1..(NJoints - 1) |-> <<i, Num(0)>>]

\* The Idle branch of update: setCommand(0.) on every joint
IdleCommands == [i \in Joints |-> <<i, Num(0)>>]

\* The Active branch's last loop: clamp and setCommand on every joint
ActiveCommands(torques) == [i \in Joints |-> <<i, enforceJointLimits(torques[i], i)>>]

\* ------------------------------------------------------------------ Init
\* The state when init returns.  The buffer is default-constructed (both slots
\* empty, no new data) and then written once with writeFromNonRT, which fills
\* only the non-realtime slot.  The gains are the constructor's: the config that
\* dynamic_reconfigure hands to the callback from setCallback comes from a .cfg
\* file outside the source, and SpecTune explores every config.
InitCtl ==
    /\ firstCommand = firstCommandInitial
    /\ rtData = <<>>
    /\ nonRtData = Placeholder
    /\ newData = TRUE
    /\ mutex = "free"
    /\ cpc = "idle"
    /\ msg = <<>>
    /\ written = {}
    /\ gains \in {ConstructorGains(b) : b \in BOOLEAN}
    /\ dsParams = [dim |-> DSDim, eigvals |-> <<1, 1, 1>>]
    /\ config = <<>>
    /\ upc = "wait"
    /\ sawActive = FALSE
    /\ commands = <<>>
    /\ mayRead = {}
    /\ issued = <<>>
    /\ calls = {}

Init ==
    /\ InitCtl
    /\ Rd = Identity3 /\ R = Identity3 /\ Re = Identity3
    /\ qe = rotationMatrixToQuaternion(Identity3)
    /\ rpc = "off"

\* ------------------------------------------------------------- commandCB
\* A message arrives: the size test of lines 343-346
commandCB_check(m) ==
    /\ upc # "crashed"
    /\ cpc = "idle"
    /\ msg' = m
    /\ cpc' = IF SizeRejected(m) THEN "rejected" ELSE NextStep("check")
    /\ UNCHANGED <<firstCommand, rtData, nonRtData, newData, mutex, written,
                   gains, dsParams, config, upc, sawActive, commands, mayRead, issued, calls>>
    /\ UNCHANGED rotVars

\* Lines 344-345: the diagnostic, and the return
commandCB_reject ==
    /\ upc # "crashed"
    /\ cpc = "rejected"
    /\ msg' = <<>>
    /\ cpc' = "idle"
    /\ UNCHANGED <<firstCommand, rtData, nonRtData, newData, mutex, written,
                   gains, dsParams, config, upc, sawActive, commands, mayRead, issued, calls>>
    /\ UNCHANGED rotVars

\* writeFromNonRT takes the mutex
commandCB_lock ==
    /\ upc # "crashed"
    /\ cpc = "write"
    /\ mutex = "free"
    /\ mutex' = "nonrt"
    /\ cpc' = "copy"
    /\ UNCHANGED <<firstCommand, rtData, nonRtData, newData, msg, written,
                   gains, dsParams, config, upc, sawActive, commands, mayRead, issued, calls>>
    /\ UNCHANGED rotVars

\* writeFromNonRT copies the message, flags it and releases the mutex
commandCB_copy ==
    /\ upc # "crashed"
    /\ cpc = "copy"
    /\ nonRtData' = msg
    /\ newData' = TRUE
    /\ mutex' = "free"
    /\ written' = {msg}
    /\ cpc' = NextStep("copy")
    /\ msg' = IF NextStep("copy") = "idle" THEN <<>> ELSE msg
    /\ UNCHANGED <<firstCommand, rtData,
                   gains, dsParams, config, upc, sawActive, commands, mayRead, issued, calls>>
    /\ UNCHANGED rotVars

\* lines 350-352
commandCB_latch ==
    /\ upc # "crashed"
    /\ cpc = "latch"
    /\ firstCommand' = LatchAfterCommand(firstCommand)
    /\ cpc' = NextStep("latch")
    /\ msg' = IF NextStep("latch") = "idle" THEN <<>> ELSE msg
    /\ UNCHANGED <<rtData, nonRtData, newData, mutex, written,
                   gains, dsParams, config, upc, sawActive, commands, mayRead, issued, calls>>
    /\ UNCHANGED rotVars

\* ---------------------------------------------- dynamicReconfigureCallback
dynamicReconfigureCallback(c) ==
    /\ upc # "crashed"
    /\ config' = <<c>>
    /\ dsParams' = [dim |-> DSDim, eigvals |-> EigvalsOf(c)]
    /\ gains' = [rotationalStiffness |-> c.rotationalStiffness,
                 rotationalDamping |-> c.rotationalDamping,
                 jointLimitsGain |-> c.jointLimitsGain,
                 desiredJointsGain |-> c.desiredJointsGain,
                 jointVelocitiesGain |-> c.jointVelocitiesGain,
                 useNullSpace |-> c.useNullSpace]
    /\ UNCHANGED <<firstCommand, rtData, nonRtData, newData, mutex, cpc, msg, written,
                   upc, sawActive, commands, mayRead, issued, calls>>
    /\ UNCHANGED rotVars

\* ---------------------------------------------------------------- update
TorqueBases == (0 - MaxTorque)..MaxTorque
NullTorques == {-1, 0, 1}

\* Line 319: N * (-jointLimitsGain_*j - desiredJointsGain_*(j-j0_) - jointVelocitiesGain_*jv)
\* is zero when the three gains are, and otherwise depends on the joint state (n)
NullspaceTorque(g, n) ==
    IF g.jointLimitsGain = 0 /\ g.desiredJointsGain = 0 /\ g.jointVelocitiesGain = 0
    THEN 0 ELSE n

\* Lines 287-292: the error quaternions the cycle can compute
ErrorQuaternions ==
    {rotationMatrixToQuaternion(MatMul(D, Inverse(M))) : D \in RotMats, M \in RotMats}

\* Whether the error quaternion can make the torques NaN, and whether it can not
ErrorPoisons == {QuatPoisons(q) : q \in ErrorQuaternions}

\* Lines 294-323: the joint torques from the primary-task torque b, the
\* nullspace term n, the gains, and whether the error quaternion poisons them
Torques(b, n, g, poisoned) ==
    [i \in Joints |->
        IF poisoned THEN NaNValue
        ELSE Num(b + (IF g.useNullSpace THEN NullspaceTorque(g, n) ELSE 0))]

\* Line 227: the cycle starts and reads the latch
update_begin ==
    /\ upc \in {"wait", "done"}
    /\ sawActive' = firstCommand
    /\ upc' = IF firstCommand THEN "active" ELSE "idle"
    /\ issued' = <<>>
    /\ calls' = {}
    /\ commands' = <<>>
    /\ mayRead' = {}
    /\ UNCHANGED <<firstCommand, rtData, nonRtData, newData, mutex, cpc, msg, written,
                   gains, dsParams, config>>
    /\ UNCHANGED rotVars

\* Lines 334-338
update_idle ==
    /\ upc = "idle"
    /\ issued' = IdleCommands
    /\ upc' = "done"
    /\ UNCHANGED <<firstCommand, rtData, nonRtData, newData, mutex, cpc, msg, written,
                   gains, dsParams, config, sawActive, commands, mayRead, calls>>
    /\ UNCHANGED rotVars

\* Lines 229-268: kinematics, then the read of the command buffer and of its
\* elements 0..9.  An index past the vector's end is undefined behaviour: the
\* cycle goes on with arbitrary values or the process dies.
update_read ==
    /\ upc = "active"
    /\ LET res == readFromRT(rtData, nonRtData, newData, mutex)
       IN  /\ rtData' = res[1]
           /\ nonRtData' = res[2]
           /\ newData' = res[3]
           /\ commands' = res[1]
           /\ IF Len(res[1]) >= CommandSize
              THEN upc' = "compute"
              ELSE upc' \in {"compute", "crashed"}
    /\ mayRead' = written \cup (IF mutex = "nonrt" THEN {msg} ELSE {})
    /\ calls' = calls \cup {"perform_fk", "jacobian"}
    /\ UNCHANGED <<firstCommand, mutex, cpc, msg, written,
                   gains, dsParams, config, sawActive, issued>>
    /\ UNCHANGED rotVars

\* Lines 270-332: passive DS, orientation error, torques, clamp, setCommand
update_issue ==
    /\ upc = "compute"
    /\ \E b \in TorqueBases, n \in NullTorques, poisoned \in ErrorPoisons :
          issued' = ActiveCommands(Torques(b, n, gains, poisoned))
    /\ calls' = calls \cup {"passive_ds", "pseudo_inverse"}
    /\ upc' = "done"
    /\ commands' = <<>>
    /\ mayRead' = {}
    /\ UNCHANGED <<firstCommand, rtData, nonRtData, newData, mutex, cpc, msg, written,
                   gains, dsParams, config, sawActive>>
    /\ UNCHANGED rotVars

\* ------------------------------------------------- orientation error law
InitRot ==
    /\ InitCtl
    /\ Rd \in RotMats /\ R \in RotMats /\ Re = Identity3
    /\ qe = rotationMatrixToQuaternion(Identity3)
    /\ rpc = "input"

\* Line 289: Re = Rd*R.inverse()
rot_error ==
    /\ rpc = "input"
    /\ Re' = MatMul(Rd, Inverse(R))
    /\ rpc' = "error"
    /\ UNCHANGED <<Rd, R, qe>>
    /\ UNCHANGED ctlVars

\* Line 291: qe = rotationMatrixToQuaternion(Re)
rot_convert ==
    /\ rpc = "error"
    /\ qe' = rotationMatrixToQuaternion(Re)
    /\ rpc' = "converted"
    /\ UNCHANGED <<Rd, R, Re>>
    /\ UNCHANGED ctlVars

\* The next cycle's orientations
rot_next ==
    /\ rpc = "converted"
    /\ Rd' \in RotMats /\ R' \in RotMats
    /\ Re' = Identity3
    /\ qe' = rotationMatrixToQuaternion(Identity3)
    /\ rpc' = "input"
    /\ UNCHANGED ctlVars

\* -------------------------------------------------------- specifications
\* The command path: command arrivals and control cycles under fixed gains
Next ==
    \/ \E m \in Messages : commandCB_check(m)
    \/ commandCB_reject
    \/ commandCB_lock
    \/ commandCB_copy
    \/ commandCB_latch
    \/ update_begin
    \/ update_idle
    \/ update_read
    \/ update_issue

Spec == Init /\ [][Next]_vars

\* The tuning path: gain updates, control cycles and well-formed commands.
\* Gain updates touch only gains, dsParams and config, which no step of
\* commandCB reads, so they are explored apart from the command sizes.
TuneMessages == {Payload(CommandSize, 1)}

NextTune ==
    \/ \E c \in Configs : dynamicReconfigureCallback(c)
    \/ \E m \in TuneMessages : commandCB_check(m)
    \/ commandCB_lock
    \/ commandCB_copy
    \/ commandCB_latch
    \/ update_begin
    \/ update_idle
    \/ update_read
    \/ update_issue

SpecTune == Init /\ [][NextTune]_vars

NextRot == rot_error \/ rot_convert \/ rot_next

SpecRot == InitRot /\ [][NextRot]_vars

\* ================================================================ claims
Max4(t) == CHOOSE x \in {t[k] : k \in 1..4} : \A k \in 1..4 : x >= t[k]
ZeroEfforts == [i \in Joints |-> <<i, [nan |-> FALSE, v |-> 0]>>]
CycleEnded == upc \in {"done", "crashed"}
ReadDone == upc \in {"compute", "crashed"}

\* C1: a command whose length is not exactly 10 is rejected: no step of
\* commandCB handling it changes the buffer contents or sets firstCommand_.
C1_WrongSizeRejected ==
    [][(cpc' # cpc /\ cpc # "idle" /\ Len(msg) # CommandSize)
          => (/\ nonRtData' = nonRtData
              /\ rtData' = rtData
              /\ newData' = newData
              /\ firstCommand' = firstCommand)]_vars

\* C2: a control cycle that ran while the controller was Idle has commanded
\* exactly 0.0 to each of the N joints and has made no kinematics,
\* pseudo-inverse or velocity-tracking call.
C2_IdleZeroTorque ==
    /\ (upc = "done" /\ ~sawActive) => (issued = ZeroEfforts /\ calls = {})
    /\ (upc = "idle") => (calls = {} /\ issued = <<>>)

C2_Witness ==
    /\ upc = "done" /\ ~sawActive
    /\ Len(issued) = NJoints
    /\ written # {}

\* C3: every torque passed to the hardware in a cycle lies in
\* [-limit_i, +limit_i] for its joint i.
C3_TorqueWithinLimits ==
    \A k \in 1..Len(issued) :
        LET e == issued[k][2]
            lim == JointEffortLimit(issued[k][1])
        IN  (~e.nan) /\ e.v <= lim.v /\ e.v >= 0 - lim.v

\* C4: the controller starts Idle; once Active it never returns to Idle, and
\* the Idle->Active transition is made only by the latch step of a commandCB
\* call whose message passed the size test.
C4_ActiveForever ==
    /\ ~firstCommand
    /\ [][/\ firstCommand => firstCommand'
          /\ (~firstCommand /\ firstCommand') => (cpc = "latch" /\ ~SizeRejected(msg))]_vars

C4_Witness ==
    /\ firstCommand /\ sawActive
    /\ cpc = "rejected"
    /\ upc = "done"

\* C5: every control cycle that ends has issued exactly one torque command to
\* each of the N joints, in joint order; no cycle ends otherwise.
C5_CycleCommandsEveryJoint ==
    CycleEnded => (Len(issued) = NJoints /\ \A i \in Joints : issued[i][1] = i)

\* C6: the vector a cycle reads from the command buffer is one complete
\* payload written by commandCB: the last one written, or the one being
\* written when a write is in flight at the read.
C6_ReadIsAcceptedPayload ==
    ReadDone => (commands \in mayRead)

\* C7: after a tuning update the five scalar gains hold the config's values
\* and the velocity-tracking primitive holds dimension 3 and the eigenvalue
\* vector (gain0, gain1, gain2).
C7_TuningStoredAsGiven ==
    (config # <<>>) =>
        LET c == config[1]
        IN  /\ gains.rotationalStiffness = c.rotationalStiffness
            /\ gains.rotationalDamping = c.rotationalDamping
            /\ gains.jointLimitsGain = c.jointLimitsGain
            /\ gains.desiredJointsGain = c.desiredJointsGain
            /\ gains.jointVelocitiesGain = c.jointVelocitiesGain
            /\ dsParams.dim = 3
            /\ dsParams.eigvals = <<c.gain0, c.gain1, c.gain2>>

\* C8: rotationMatrixToQuaternion takes the branch whose quantity is the
\* largest of tr, tr1, tr2, tr3, and the component it divides by is not zero.
C8_LargestBranchNonZeroPivot ==
    (rpc = "converted") =>
        /\ qe.quantities[qe.branch + 1] = Max4(qe.quantities)
        /\ qe.pivotSq # 0

\* C9: the payload held in the command buffer has exactly 10 elements, and so
\* has the vector every Active cycle indexes from 0 to 9.
C9_PayloadHasTenElements ==
    /\ Len(Published) = CommandSize
    /\ ReadDone => (Len(commands) = CommandSize)

\* C10: whenever the latch is set the buffer already holds a payload written
\* by commandCB (not init's placeholder), and a cycle that ends between the
\* buffer write and the latch set has issued zero torque.
C10_PublishedBeforeLatch ==
    /\ firstCommand => (written # {} /\ Published \in written /\ Published # Placeholder)
    /\ (upc = "done" /\ cpc = "latch" /\ ~firstCommand) => (issued = ZeroEfforts)

C10_Witness ==
    /\ upc = "done" /\ cpc = "latch" /\ ~firstCommand
    /\ Published = msg
    /\ issued = ZeroEfforts

====
